---- MODULE Spec2Model ----
(***************************************************************************)
(* Model of the LED light controller (LEDLightFantastic.go): the main      *)
(* control loop, the median filter, the auto-mode engine and the duty      *)
(* controller, the startup of main and the ADC driver (adc.go).  Durations *)
(* are integers in nanoseconds, clock readings are integers in seconds.    *)
(***************************************************************************)
EXTENDS Integers, Sequences, FiniteSets, TLC

VARIABLES
    windowSize,    \* the -window flag
    pc,            \* position of main: "read" (top of the for loop) or "range"
    iter,          \* number of loop iterations started
    now,           \* the wall clock, in seconds
    aoutMap,       \* result of the last ReadAnalog: step -> raw reading
    todo,          \* steps of aoutMap the range loop has not visited yet
    autoMode,      \* main's autoMode
    autoLoopStep,  \* main's autoLoopStep
    stepLoopMax,   \* main's stepLoopMax
    prevLoopMax,   \* main's prevLoopMax
    medAout,       \* main's medAout, per step (last value computed for it)
    LEDMap,        \* step -> LED (window and auto-mode fields)
    duties,        \* main's duties slice: the proposed duty saved per step
    pwm,           \* duty last set on each PWM line (0: never set)
    written,       \* steps whose PWM line was set in the current iteration
    recent,        \* history: per step, its latest raw samples (at most windowSize)
    boot,          \* startup of main: position, flags and PWM lines acquired
    adc            \* the ADC (registers, FIFO) and the position of its driver

\* The state of the control loop.
loopVars == <<windowSize, pc, iter, now, aoutMap, todo, autoMode, autoLoopStep,
              stepLoopMax, prevLoopMax, medAout, LEDMap, duties, pwm, written,
              recent>>

vars == <<windowSize, pc, iter, now, aoutMap, todo, autoMode, autoLoopStep,
          stepLoopMax, prevLoopMax, medAout, LEDMap, duties, pwm, written,
          recent, boot, adc>>

-----------------------------------------------------------------------------
(* Program constants *)

pwmPeriod == 500000
ainMinPad == 25
maxLEDCurrent == 700
maxTotalCurrent == 1400
maxTotalDuty == (pwmPeriod * maxTotalCurrent) \div maxLEDCurrent
dutyCeiling == 499990
aoutOff == 10
aoutOn == 4000
autoLoopMax == 400
autoLoopAdjust == 5
autoOffsetDelta == 2
autoOffsetMax == 500
autoOffsetAdjust == 5
autoOffsetMaxRatio == 2
offsetRangeRatio == 2
loopRangeRatio == 2
MaxDial == 4095
clockDividerMin == 1
clockDividerMax == 65534
ByteValues == 256

\* The four ADC steps of P9_39, P9_40, P9_37, P9_38 (bank ids 0..3).
Steps == 0 .. 3

-----------------------------------------------------------------------------
(* Bounds of the model *)

MaxWindow == 2
MaxWindowManual == 3
MaxIter == 2
MaxIterManual == 3
MaxIterAuto == 20
AutoWindow == 3
MaxTime == 6
TickSeconds == 3
MaxIterMode == 2
MaxIterDuty == 1
MaxWindowHold == 3
MaxIterHold == 4
MaxIterLive == 2
MaxIterRate == 2
MaxCalls == 2
MaxStale == 2
LiveWindow == 1
MaxIterOffset == 8
MaxIterLong == 510
MaxIterExit == 2

-----------------------------------------------------------------------------
(* Helpers *)

Min(a, b) == IF a < b THEN a ELSE b

RECURSIVE SumOver(_, _)
SumOver(f, S) ==
    IF S = {} THEN 0
    ELSE LET x == CHOOSE y \in S : TRUE IN f[x] + SumOver(f, S \ {x})

\* The last n elements of a sequence (all of it when it is shorter).
LastN(q, n) == IF Len(q) <= n THEN q ELSE SubSeq(q, Len(q) - n + 1, Len(q))

\* rand.Intn(n) draws from 0 .. n-1; the model draws the two ends of the range.
Picks == {"lo", "hi"}
Intn(n, pick) == IF pick = "lo" THEN 0 ELSE n - 1

\* The zero time.Time of an LED that never adjusted: further back than any cooldown.
ZeroTime == 0 - (autoOffsetAdjust + autoLoopAdjust + 1)
Since(t, last) == t - last

-----------------------------------------------------------------------------
(* Median filter *)

\* initWindow: a ring of windowSize zeros; pos is the ring element led.win points at.
initWindow(n) == [vals |-> [i \in 0 .. n - 1 |-> 0], pos |-> 0]

\* ring.Do from the current element: the values in ring order.
RingSeq(w, n) == [i \in 1 .. n |-> w.vals[(w.pos + i - 1) % n]]

RECURSIVE Insert(_, _)
Insert(x, s) ==
    IF s = <<>> THEN <<x>>
    ELSE IF x <= Head(s) THEN <<x>> \o s
    ELSE <<Head(s)>> \o Insert(x, Tail(s))

RECURSIVE SortFloat64s(_)
SortFloat64s(s) == IF s = <<>> THEN <<>> ELSE Insert(Head(s), SortFloat64s(Tail(s)))

\* window.Value = float64(aout)
SetValue(w, aout) == [w EXCEPT !.vals[w.pos] = aout]

\* counts after sort.Float64s: the values of the ring in ascending order.
UnsortedCounts(w, n) == RingSeq(w, n)
SortedCounts(w, n) == SortFloat64s(RingSeq(w, n))

\* The index calcMedian returns, 0-based: *windowSize/2.
LowerMiddleIndex(n) == (n - 1) \div 2
MedianIndex(n) == n \div 2

\* calcMedian's result: counts[*windowSize/2] of the sorted ring.
calcMedian(w, aout, n) == SortedCounts(SetValue(w, aout), n)[MedianIndex(n) + 1]

\* The ring pointer left where it is.
RingStay(w, n) == w

\* led.win = led.win.Next()
RingNext(w, n) == [w EXCEPT !.pos = (w.pos + 1) % n]

-----------------------------------------------------------------------------
(* Duty controller *)

\* calcDuty without the math.Min against 499990.
calcDutyUncapped(aout) == (3 * aout * aout) \div 100 + ainMinPad

\* time.Duration(math.Min(.03*aout^2 + ainMinPad, 499990)): the float64 value
\* truncated; for every integer aout in 0 .. 5999 it equals this integer formula.
calcDuty(aout) == Min((3 * aout * aout) \div 100 + ainMinPad, dutyCeiling)

\* maxTotalDuty * duty / sum in int64 (no overflow there: below 2^40), computed
\* here in two steps of long division so that every intermediate fits 32 bits.
ScaleFactor == 1000
MulDivBudget(duty, sum) ==
    LET q1 == (ScaleFactor * duty) \div sum
        r1 == (ScaleFactor * duty) % sum
    IN  (maxTotalDuty \div ScaleFactor) * q1
          + ((maxTotalDuty \div ScaleFactor) * r1) \div sum

\* normalize with the budget test made against the PWM period instead.
normalizeAgainstPeriod(ds, duty) ==
    LET sum == SumOver(ds, Steps)
    IN  IF sum > pwmPeriod THEN MulDivBudget(duty, sum) ELSE duty

normalize(ds, duty) ==
    LET sum == SumOver(ds, Steps)
    IN  IF sum > maxTotalDuty THEN MulDivBudget(duty, sum) ELSE duty

\* setDuty made to compare the normalized duty with the duty the line carries.
setDutyOnAppliedChange(ds, p, aout, step) ==
    LET newDuty == calcDuty(aout)
        normalDuty == normalize(ds, newDuty)
    IN  IF normalDuty # p[step]
        THEN [duties |-> [ds EXCEPT ![step] = newDuty],
              pwm |-> [p EXCEPT ![step] = normalDuty],
              wrote |-> TRUE]
        ELSE [duties |-> ds, pwm |-> p, wrote |-> FALSE]

\* setDuty: the new duties slice, the new PWM duty and whether SetPWM was called.
setDuty(ds, p, aout, step) ==
    LET newDuty == calcDuty(aout)
        normalDuty == normalize(ds, newDuty)
    IN  IF newDuty # ds[step]
        THEN [duties |-> [ds EXCEPT ![step] = newDuty],
              pwm |-> [p EXCEPT ![step] = normalDuty],
              wrote |-> TRUE]
        ELSE [duties |-> ds, pwm |-> p, wrote |-> FALSE]

-----------------------------------------------------------------------------
(* Auto-mode engine *)

\* randomAutoOffsetMax drawing up to twice its argument.
randomAutoOffsetMaxWide(offsetMax0, pick) ==
    LET offsetMax == IF offsetMax0 < 1 THEN 1 ELSE offsetMax0
        offsetMinPad == offsetMax \div offsetRangeRatio
    IN  Intn(offsetMax + offsetMax - offsetMinPad, pick) + offsetMinPad

\* randomAutoOffsetMax: rand.Intn(offsetMax-offsetMinPad) + offsetMinPad
randomAutoOffsetMax(offsetMax0, pick) ==
    LET offsetMax == IF offsetMax0 < 1 THEN 1 ELSE offsetMax0
        offsetMinPad == offsetMax \div offsetRangeRatio
    IN  Intn(offsetMax - offsetMinPad, pick) + offsetMinPad

\* randomAutoLoopMax without the test of lines 280-282.
randomAutoLoopMaxUnguarded(loopMax0, pick) ==
    LET loopMax == IF loopMax0 < 1 THEN 1 ELSE loopMax0
        loopMinPad == loopMax \div loopRangeRatio
    IN  Intn(loopMax - loopMinPad, pick) + loopMinPad

\* randomAutoLoopMax: rand.Intn(loopMax-loopMinPad) + loopMinPad, never 0
randomAutoLoopMax(loopMax0, pick) ==
    LET loopMax == IF loopMax0 < 1 THEN 1 ELSE loopMax0
        loopMinPad == loopMax \div loopRangeRatio
        r == Intn(loopMax - loopMinPad, pick) + loopMinPad
    IN  IF r = 0 THEN 1 ELSE r

\* randomAutoOffsetDelta
randomAutoOffsetDelta(pick) ==
    IF Intn(2, pick) = 0 THEN autoOffsetDelta ELSE -autoOffsetDelta

\* The test of line 219 without its two tests against the limit.
HitBoundaryThresholdsOnly(led, aout) ==
    \/ aout + led.autoOffset <= aoutOff
    \/ aout + led.autoOffset >= aoutOn

\* The test of line 219 on the stepped offset: a limit passed in the direction of
\* travel, or the biased intensity at or beyond a threshold.
HitBoundary(led, aout) ==
    \/ led.autoOffset > led.autoOffsetMax /\ led.autoOffsetDelta > 0
    \/ led.autoOffset < -led.autoOffsetMax /\ led.autoOffsetDelta < 0
    \/ aout + led.autoOffset <= aoutOff
    \/ aout + led.autoOffset >= aoutOn

\* Lines 223-240 without the cooldown test of line 223.
AdjustOffsetMaxUnthrottled(led, aout, t, d) ==
    LET l1 == [led EXCEPT !.lastOffsetAdjust = t]
    IN  IF Intn(2, d.coinOffset) = 0
        THEN [l1 EXCEPT !.autoOffsetMax =
                            randomAutoOffsetMax(Min(aout * autoOffsetMaxRatio,
                                                    autoOffsetMax), d.pick)]
        ELSE l1

\* Lines 223-240: the throttled re-randomization of autoOffsetMax after a reflection.
AdjustOffsetMax(led, aout, t, d) ==
    IF Since(t, led.lastOffsetAdjust) > autoOffsetAdjust
    THEN LET l1 == [led EXCEPT !.lastOffsetAdjust = t]
         IN  IF Intn(2, d.coinOffset) = 0
             THEN LET offsetMax == Min(aout * autoOffsetMaxRatio, autoOffsetMax)
                      l2 == [l1 EXCEPT !.autoOffsetMax =
                                           randomAutoOffsetMax(offsetMax, d.pick)]
                  IN  IF l2.autoOffset > l2.autoOffsetMax
                      THEN [l2 EXCEPT !.autoOffsetDelta = -autoOffsetDelta]
                      ELSE IF l2.autoOffset < -l2.autoOffsetMax
                      THEN [l2 EXCEPT !.autoOffsetDelta = autoOffsetDelta]
                      ELSE l2
             ELSE l1
    ELSE led

\* Lines 219-241: reflect offsetDelta at a boundary, then maybe adjust the limit.
Reflect(led, aout, t, d) ==
    IF HitBoundary(led, aout)
    THEN AdjustOffsetMax([led EXCEPT !.autoOffsetDelta = -@], aout, t, d)
    ELSE led

\* Lines 245-250: the throttled re-randomization of autoLoopMax.
AdjustLoopMax(led, loopMax, t, d) ==
    IF ~led.updateLoopSize /\ Since(t, led.lastLoopAdjust) > autoLoopAdjust
    THEN LET l1 == [led EXCEPT !.lastLoopAdjust = t]
         IN  IF Intn(3, d.coinLoop) = 0
             THEN [l1 EXCEPT !.autoLoopMax = randomAutoLoopMax(loopMax, d.pick)]
             ELSE l1
    ELSE led

\* The guard of line 205 one advance late.
StepDueLate(led) == led.updateLoopSize \/ led.autoLoop > led.autoLoopMax + 1

\* The guard of line 205 without the pending loop-size flag.
StepDueWhenCounted(led) == led.autoLoop > led.autoLoopMax

\* The guard of line 205 with >= in place of >.
StepDueAtLimit(led) == led.updateLoopSize \/ led.autoLoop >= led.autoLoopMax

\* The guard of line 205, on the incremented counter.
StepDue(led) == led.updateLoopSize \/ led.autoLoop > led.autoLoopMax

\* LED.autoAdjust at time t with random draws d: the LED afterwards.
autoAdjust(led, aout, loopMax, t, d) ==
    LET l1 == [led EXCEPT !.autoLoop = @ + 1]
    IN  IF StepDue(l1)
        THEN LET l2 == IF l1.updateLoopSize
                       THEN [l1 EXCEPT !.autoLoopMax = randomAutoLoopMax(loopMax, d.pick),
                                       !.updateLoopSize = FALSE]
                       ELSE l1
                 l3 == [l2 EXCEPT !.autoLoop = 0,
                                  !.autoOffset = @ + l2.autoOffsetDelta]
             IN  AdjustLoopMax(Reflect(l3, aout, t, d), loopMax, t, d)
        ELSE l1

\* The random draws of one autoAdjust call: the two coins of lines 225 and 247,
\* and the end of the range that its calls of randomAuto...Max draw.
Draws == [coinOffset : Picks, coinLoop : Picks, pick : Picks]

\* calcStepLoopMax
calcStepLoopMax(aout) ==
    CASE aout < 20 -> 1024
      [] aout >= 20 /\ aout < 60 -> 512
      [] aout >= 60 /\ aout < 130 -> 256
      [] aout >= 130 /\ aout < 200 -> 128
      [] aout >= 200 /\ aout < 400 -> 64
      [] aout >= 400 /\ aout < 800 -> 32
      [] aout >= 800 /\ aout < 1200 -> 16
      [] aout >= 1200 /\ aout < 2000 -> 8
      [] aout >= 2000 /\ aout < 3500 -> 4
      [] aout >= 3500 /\ aout < 4090 -> 2
      [] OTHER -> 1

\* calcAutoMode over the four readings: <<autoMode, autoLoopStep>>.  ls is the
\* last step seen below aoutOff; it is returned only when there is exactly one.
OffSteps(m) == {s \in Steps : m[s] < aoutOff}
OnSteps(m) == {s \in Steps : ~(m[s] < aoutOff) /\ m[s] > aoutOn}
\* calcAutoMode without the switch-off case of lines 380-382.
calcAutoModeKeepsOn(mode, loopStep, m) ==
    LET offCt == Cardinality(OffSteps(m))
        onCt == Cardinality(OnSteps(m))
    IN  IF offCt = 1 /\ onCt = 3
        THEN <<TRUE, CHOOSE s \in OffSteps(m) : TRUE>>
        ELSE <<mode, loopStep>>

\* calcAutoMode switching on for one reading below aoutOff, whatever the others.
calcAutoModeOneOff(mode, loopStep, m) ==
    LET offCt == Cardinality(OffSteps(m))
    IN  IF offCt = 4 THEN <<FALSE, loopStep>>
        ELSE IF offCt = 1
        THEN <<TRUE, CHOOSE s \in OffSteps(m) : TRUE>>
        ELSE <<mode, loopStep>>

calcAutoMode(mode, loopStep, m) ==
    LET offCt == Cardinality(OffSteps(m))
        onCt == Cardinality(OnSteps(m))
    IN  IF offCt = 4 THEN <<FALSE, loopStep>>
        ELSE IF offCt = 1 /\ onCt = 3
        THEN <<TRUE, CHOOSE s \in OffSteps(m) : TRUE>>
        ELSE <<mode, loopStep>>

-----------------------------------------------------------------------------
(* ADC driver (adc.go) *)

\* byte(x) of a non-negative int
ToByte(x) == x % ByteValues

\* No entry for a step in the map readFIFO builds.
NoEntry == [aout |-> -1, call |-> -1]

\* An entry of the FIFO: the step-ID tag, the 12-bit value and (history) the
\* number of the ReadAnalog call during which the ADC stored it; 0: before any.
Entry(step, aout, call) == [step |-> step, aout |-> aout, call |-> call]

\* The ADC before ADCInit, with the entries f in its FIFO.
Unstarted(f) ==
    [pos |-> "off",
     isMapped |-> FALSE,
     clockRequested |-> FALSE,   \* MODULEMODE enable written to CM_WKUP_ADC_TSC_CLKCTRL
     moduleMode |-> FALSE,       \* that bit as the register reads
     ctrl |-> {},                \* bits of ADC_CTRL that are set
     clkdiv |-> 0,               \* the byte at ADC_CLKDIV
     stepConfig |-> {},          \* steps whose STEPCONFIG and STEPDELAY were written
     cfgWhileProtected |-> FALSE,
     stepEnable |-> {},          \* bits of ADC_STEPENABLE that are set, as steps
     fifo |-> f,
     calls |-> 0,                \* ReadAnalog calls entered
     result |-> [s \in Steps |-> NoEntry],
     logged |-> FALSE]           \* the current call logged a non-empty FIFO

\* The ADC when ADCInit has returned for a -divider flag d.
Initialized(d, f) ==
    [Unstarted(f) EXCEPT !.pos = "idle",
                         !.isMapped = TRUE,
                         !.clockRequested = TRUE,
                         !.moduleMode = TRUE,
                         !.ctrl = {"stepIdTag"},
                         !.clkdiv = ToByte(d - 1),
                         !.stepConfig = Steps]

\* getFIFOCount
getFIFOCount(a) == Len(a.fifo)

\* A count of 0 whatever the FIFO holds.
CountZero(a) == 0

\* The count the loop of lines 224-229 tests.
LeftoverCount(a) == getFIFOCount(a)

\* One pass of the loop of readFIFO: read the FIFO register, which moves the
\* FIFO on, and store the value under its step.
readFIFO(a) ==
    LET e == Head(a.fifo)
    IN  [a EXCEPT !.fifo = Tail(a.fifo),
                  !.result[e.step] = [aout |-> e.aout, call |-> e.call]]

\* Lines 216-222: ReadAnalog is entered; it needs the memory mapping.
ReadAnalogEnter ==
    /\ boot.pos = "loop"
    /\ adc.pos = "idle"
    /\ adc.calls < MaxCalls
    /\ IF adc.isMapped
       THEN /\ adc' = [adc EXCEPT !.pos = "drain", !.calls = @ + 1,
                                  !.logged = FALSE]
            /\ boot' = boot
       ELSE /\ boot' = [boot EXCEPT !.pos = "fatal", !.failedAt = "ReadAnalog"]
            /\ adc' = adc
    /\ UNCHANGED loopVars

\* Lines 224-229, one pass: a non-empty FIFO is logged and read until it is empty
\* (readFIFO loops on the count; the ADC is disabled and stores nothing).
DrainAll(a) ==
    [a EXCEPT !.fifo = <<>>, !.logged = TRUE,
              !.result = [s \in Steps |-> NoEntry]]

ReadAnalogDrain ==
    /\ adc.pos = "drain"
    /\ adc' = IF LeftoverCount(adc) # 0
              THEN DrainAll(adc)
              ELSE [adc EXCEPT !.pos = "enable"]
    /\ UNCHANGED <<loopVars, boot>>

\* enableStepSequencer for the four pins, and the sleep after it.
enableStepSequencer ==
    /\ adc.pos = "enable"
    /\ adc' = [adc EXCEPT !.stepEnable = @ \cup Steps,
                          !.ctrl = @ \cup {"enable"},
                          !.result = [s \in Steps |-> NoEntry],
                          !.pos = "harvest"]
    /\ UNCHANGED <<loopVars, boot>>

\* The ADC converts an enabled step (one-shot: the hardware clears the step's
\* enable bit) and stores the value v it samples in the FIFO.
Convert(step, v) ==
    /\ "enable" \in adc.ctrl
    /\ step \in adc.stepEnable
    /\ adc' = [adc EXCEPT !.stepEnable = @ \ {step},
                          !.fifo = Append(@, Entry(step, v, adc.calls))]
    /\ UNCHANGED <<loopVars, boot>>

\* readFIFO(len(pins)), one pass of its loop or its exit on a count of 0.
ReadAnalogHarvest ==
    /\ adc.pos = "harvest"
    /\ adc' = IF getFIFOCount(adc) > 0
              THEN readFIFO(adc)
              ELSE [adc EXCEPT !.pos = "disable"]
    /\ UNCHANGED <<loopVars, boot>>

\* disableStepSequencer without its last statement (line 276).
disableStepSequencerKeepsCtrl ==
    /\ adc.pos = "disable"
    /\ adc' = [adc EXCEPT !.stepEnable = @ \ Steps, !.pos = "idle"]
    /\ UNCHANGED <<loopVars, boot>>

\* disableStepSequencer for the four pins, and the return of the map.
disableStepSequencer ==
    /\ adc.pos = "disable"
    /\ adc' = [adc EXCEPT !.stepEnable = @ \ Steps,
                          !.ctrl = @ \ {"enable"},
                          !.pos = "idle"]
    /\ UNCHANGED <<loopVars, boot>>

-----------------------------------------------------------------------------
(* Startup of main (lines 389-404) *)

\* main at its first statement, with a -divider flag d.
Booting(d) ==
    [pos |-> "sleep", clockDivider |-> d, lines |-> 0, done |-> {},
     failedAt |-> "none"]

\* main on entry to its for loop.
Started(d) ==
    [pos |-> "loop", clockDivider |-> d, lines |-> 4,
     done |-> {"sleep", "divider", "overlay", "pwm", "mmap", "ADCInit"},
     failedAt |-> "none"]

\* log.Fatal at a startup step: the process exits.
Fatal(b, step) == [b EXCEPT !.pos = "fatal", !.failedAt = step]

\* The step is completed and main moves on to the position next.
Passed(b, step, next) == [b EXCEPT !.pos = next, !.done = @ \cup {step}]

\* Lines 394-396: time.ParseDuration(*sleep).
ParseSleep(ok) ==
    /\ boot.pos = "sleep"
    /\ boot' = IF ok THEN Passed(boot, "sleep", "divider") ELSE Fatal(boot, "sleep")
    /\ UNCHANGED <<loopVars, adc>>

\* The test of line 397, made to accept every divider.
AnyDivider(d) == TRUE

\* The test of line 397.
ValidDivider(d) == ~((d < clockDividerMin) \/ (d > clockDividerMax))

\* Lines 397-399.
CheckDivider ==
    /\ boot.pos = "divider"
    /\ boot' = IF ValidDivider(boot.clockDivider)
               THEN Passed(boot, "divider", "overlay")
               ELSE Fatal(boot, "divider")
    /\ UNCHANGED <<loopVars, adc>>

\* initPWMs, line 296: addDTOIfNotExists(pwmDTO).
AddOverlay(ok) ==
    /\ boot.pos = "overlay"
    /\ boot' = IF ok THEN Passed(boot, "overlay", "pwm") ELSE Fatal(boot, "overlay")
    /\ UNCHANGED <<loopVars, adc>>

\* initPWMs, lines 297-300: one call of newPWM; after the fourth the LED map is
\* built and main goes on to ADCInit.
newPWM(ok) ==
    /\ boot.pos = "pwm"
    /\ boot' = IF ~ok THEN Fatal(boot, "pwm")
               ELSE IF boot.lines + 1 < 4 THEN [boot EXCEPT !.lines = @ + 1]
               ELSE Passed([boot EXCEPT !.lines = @ + 1], "pwm", "adc")
    /\ UNCHANGED <<loopVars, adc>>

\* ADCInit, lines 148-150: mmapInit.
mmapInit(ok) ==
    /\ boot.pos = "adc" /\ adc.pos = "off"
    /\ IF ok
       THEN /\ adc' = [adc EXCEPT !.isMapped = TRUE, !.pos = "clock"]
            /\ boot' = [boot EXCEPT !.done = @ \cup {"mmap"}]
       ELSE /\ adc' = adc
            /\ boot' = Fatal(boot, "mmap")
    /\ UNCHANGED loopVars

\* ADCInit, line 155: the module-mode enable bit is written.
ADCInitClock ==
    /\ adc.pos = "clock"
    /\ adc' = [adc EXCEPT !.clockRequested = TRUE, !.pos = "wait"]
    /\ UNCHANGED <<loopVars, boot>>

\* A clock module that never shows the enable bit.
ClockNeverLatches == FALSE /\ UNCHANGED vars

\* The clock module shows the enable bit.
ClockLatch ==
    /\ adc.clockRequested /\ ~adc.moduleMode
    /\ adc' = [adc EXCEPT !.moduleMode = TRUE]
    /\ UNCHANGED <<loopVars, boot>>

\* ADCInit, lines 157-159: the wait ends when the bit reads as set.
ADCInitWait ==
    /\ adc.pos = "wait"
    /\ adc.moduleMode
    /\ adc' = [adc EXCEPT !.pos = "ctrl"]
    /\ UNCHANGED <<loopVars, boot>>

\* Line 163 without ADC_STEPCONFIG_WRITE_PROTECT_OFF.
ADCInitCtrlProtected ==
    /\ adc.pos = "ctrl"
    /\ adc' = [adc EXCEPT !.ctrl = {"stepIdTag"}, !.pos = "clkdiv"]
    /\ UNCHANGED <<loopVars, boot>>

\* ADCInit, line 163: ADC_CTRL is written.
ADCInitCtrl ==
    /\ adc.pos = "ctrl"
    /\ adc' = [adc EXCEPT !.ctrl = {"stepIdTag", "wpOff"}, !.pos = "clkdiv"]
    /\ UNCHANGED <<loopVars, boot>>

\* The byte ADCInit is handed: byte(*clockDivider-1), line 403.
DividerByte(d) == ToByte(d - 1)

\* ADCInit, line 165: ADC_CLKDIV is written.
ADCInitClkdiv ==
    /\ adc.pos = "clkdiv"
    /\ adc' = [adc EXCEPT !.clkdiv = DividerByte(boot.clockDivider),
                          !.pos = "stepcfg"]
    /\ UNCHANGED <<loopVars, boot>>

\* ADCInit, lines 172-195: the STEPCONFIG and STEPDELAY registers of steps 1-4.
ADCInitSteps ==
    /\ adc.pos = "stepcfg"
    /\ adc' = [adc EXCEPT !.stepConfig = Steps,
                          !.cfgWhileProtected = @ \/ "wpOff" \notin adc.ctrl,
                          !.pos = "protect"]
    /\ UNCHANGED <<loopVars, boot>>

\* ADCInit, line 204, and its return to main, which enters the for loop.
ADCInitProtect ==
    /\ adc.pos = "protect"
    /\ adc' = [adc EXCEPT !.ctrl = @ \ {"wpOff"}, !.pos = "idle"]
    /\ boot' = Passed(boot, "ADCInit", "loop")
    /\ UNCHANGED loopVars

-----------------------------------------------------------------------------
(* main *)

\* One LED of initPWMs; its three random draws are taken at the same end.
initLED(n, pick) ==
    [win |-> initWindow(n),
     autoLoop |-> 0,
     autoLoopMax |-> randomAutoLoopMax(autoLoopMax, pick),
     updateLoopSize |-> FALSE,
     lastLoopAdjust |-> ZeroTime,
     autoOffset |-> 0,
     autoOffsetDelta |-> randomAutoOffsetDelta(pick),
     autoOffsetMax |-> randomAutoOffsetMax(autoOffsetMax, pick),
     lastOffsetAdjust |-> ZeroTime]

\* The ends drawn by initPWMs for the LEDs of steps 0 .. 3.
InitPicks ==
    { <<"lo", "lo", "lo", "lo">>,
      <<"lo", "hi", "lo", "hi">> }

\* The variables of the control loop before its first iteration, for a -window
\* flag in W and initial draws in P.
LoopInit(W, P) ==
    /\ windowSize \in W
    /\ pc = "read"
    /\ iter = 0
    /\ now = 0
    /\ aoutMap = [s \in Steps |-> 0]
    /\ todo = {}
    /\ autoMode = FALSE
    /\ autoLoopStep = 0
    /\ stepLoopMax = 0
    /\ prevLoopMax = 0
    /\ medAout = [s \in Steps |-> 0]
    /\ \E picks \in P :
           LEDMap = [s \in Steps |-> initLED(windowSize, picks[s + 1])]
    /\ duties = [s \in Steps |-> 0]
    /\ pwm = [s \in Steps |-> 0]
    /\ written = {}
    /\ recent = [s \in Steps |-> <<>>]

\* The state on entry to the for loop of main, for a -window flag in W and
\* initial draws in P: started with the default flags, the FIFO empty.
InitWith(W, P) ==
    /\ LoopInit(W, P)
    /\ boot = Started(clockDividerMin)
    /\ adc = Initialized(clockDividerMin, <<>>)

Init == InitWith(1 .. MaxWindow, InitPicks)

\* Dial positions read in one iteration, as <<step 0, step 1, step 2, step 3>>.
Readings ==
    { <<5, 5, 5, 5>>,
      <<5, 4090, 4090, 4090>>,
      <<4090, 5, 4090, 4090>>,
      <<4095, 12, 5, 5>> }

AsMap(r) == [s \in Steps |-> r[s + 1]]

\* Lines 421-426: sleep, ReadAnalog of the four pins, calcAutoMode.
ReadAnalog(r, dt, maxIter) ==
    /\ pc = "read"
    /\ iter < maxIter
    /\ now + dt <= MaxTime
    /\ iter' = iter + 1
    /\ now' = now + dt
    /\ aoutMap' = AsMap(r)
    /\ LET mode == calcAutoMode(autoMode, autoLoopStep, AsMap(r))
       IN  autoMode' = mode[1] /\ autoLoopStep' = mode[2]
    /\ todo' = Steps
    /\ written' = {}
    /\ pc' = "range"
    /\ UNCHANGED <<windowSize, stepLoopMax, prevLoopMax, medAout, LEDMap, duties, pwm,
                   recent, boot, adc>>

\* The rate-control step made to set its duty like the other steps.
RateStepSetsDuty(step, led, med) ==
    LET res == setDuty(duties, pwm, med, step)
    IN  /\ stepLoopMax' = calcStepLoopMax(med)
        /\ prevLoopMax' = prevLoopMax
        /\ LEDMap' = [LEDMap EXCEPT ![step] = led]
        /\ duties' = res.duties
        /\ pwm' = res.pwm
        /\ written' = IF res.wrote THEN written \cup {step} ELSE written

\* Lines 436-447: the rate-control step only maps its median to a loop size.
RateStep(step, led, med) ==
    LET loopMax == calcStepLoopMax(med)
    IN  /\ stepLoopMax' = loopMax
        /\ IF loopMax # prevLoopMax
           THEN /\ LEDMap' = [s \in Steps |->
                                 [(IF s = step THEN led ELSE LEDMap[s])
                                     EXCEPT !.updateLoopSize = TRUE]]
                /\ prevLoopMax' = loopMax
           ELSE /\ LEDMap' = [LEDMap EXCEPT ![step] = led]
                /\ prevLoopMax' = prevLoopMax
        /\ UNCHANGED <<duties, pwm, written>>

\* The call of setDuty and its effect on main's state.
ApplyDuty(step, aout) ==
    LET res == setDuty(duties, pwm, aout, step)
    IN  /\ duties' = res.duties
        /\ pwm' = res.pwm
        /\ written' = IF res.wrote THEN written \cup {step} ELSE written

\* Lines 451-464: an LED of auto mode that is not the rate control.
AutoStep(step, led, med, d) ==
    LET adjusted == IF med > aoutOff
                    THEN autoAdjust(led, med, stepLoopMax, now, d)
                    ELSE led
        biased == med + adjusted.autoOffset
        autoAout == IF med > aoutOff
                    THEN (IF biased < 0 THEN 0 ELSE biased)
                    ELSE 0
    IN  /\ LEDMap' = [LEDMap EXCEPT ![step] = adjusted]
        /\ ApplyDuty(step, autoAout)
        /\ UNCHANGED <<stepLoopMax, prevLoopMax>>

\* Manual mode made to reset the offset of the LED.
ManualStepResetsOffset(step, led, med) ==
    /\ LEDMap' = [LEDMap EXCEPT ![step] = [led EXCEPT !.autoOffset = 0]]
    /\ ApplyDuty(step, med)
    /\ UNCHANGED <<stepLoopMax, prevLoopMax>>

\* Lines 466-469: manual mode.
ManualStep(step, led, med) ==
    /\ LEDMap' = [LEDMap EXCEPT ![step] = led]
    /\ ApplyDuty(step, med)
    /\ UNCHANGED <<stepLoopMax, prevLoopMax>>

\* Lines 427-471: the body of the range loop for one step of aoutMap (the map is
\* ranged over in any order), with the random draws d of its autoAdjust call.
StepChannel(step, d) ==
    /\ pc = "range"
    /\ step \in todo
    /\ LET med == calcMedian(LEDMap[step].win, aoutMap[step], windowSize)
           led == [LEDMap[step] EXCEPT
                      !.win = RingNext(SetValue(@, aoutMap[step]), windowSize)]
       IN  /\ medAout' = [medAout EXCEPT ![step] = med]
           /\ recent' = [recent EXCEPT
                            ![step] = LastN(Append(@, aoutMap[step]), windowSize)]
           /\ IF autoMode
              THEN IF step = autoLoopStep
                   THEN RateStep(step, led, med)
                   ELSE AutoStep(step, led, med, d)
              ELSE ManualStep(step, led, med)
    /\ todo' = todo \ {step}
    /\ pc' = IF todo \ {step} = {} THEN "read" ELSE "range"
    /\ UNCHANGED <<windowSize, iter, now, aoutMap, autoMode, autoLoopStep, boot, adc>>

Ticks == {0, TickSeconds}

\* Draws with both coins and the range end alike.
MainDraws == {d \in Draws : d.coinOffset = d.pick /\ d.coinLoop = d.pick}

\* The control loop over the dial positions of Readings, for the first MaxIter
\* iterations (which take less than a second).
Next ==
    \/ \E r \in Readings : ReadAnalog(r, 0, MaxIter)
    \/ \E step \in Steps, d \in MainDraws : StepChannel(step, d)

Spec == Init /\ [][Next]_vars

-----------------------------------------------------------------------------
(* The control loop in manual mode: the dials never make the auto-mode gesture *)

ManualReadings ==
    { <<14, 14, 14, 14>>,
      <<4095, 4095, 4095, 14>>,
      <<4095, 4095, 4095, 15>>,
      <<4095, 4095, 4095, 4095>> }

NoDraws == {d \in Draws : d.coinOffset = "hi" /\ d.coinLoop = "hi" /\ d.pick = "hi"}

InitManual == InitWith(1 .. MaxWindowManual, {<<"lo", "lo", "lo", "lo">>})

NextManual ==
    \/ \E r \in ManualReadings : ReadAnalog(r, 0, MaxIterManual)
    \/ \E step \in Steps, d \in NoDraws : StepChannel(step, d)

SpecManual == InitManual /\ [][NextManual]_vars

-----------------------------------------------------------------------------
(* The control loop under dial patterns on both sides of the two thresholds,    *)
(* with a window of one sample.                                                 *)

ModeReadings ==
    { <<5, 5, 5, 5>>,
      <<9, 4001, 4001, 4001>>,
      <<4090, 4090, 4090, 5>>,
      <<10, 4090, 4090, 4090>>,
      <<5, 4000, 4090, 4090>>,
      <<5, 5, 4090, 4090>>,
      <<5, 5, 5, 2000>>,
      <<2000, 2000, 2000, 2000>>,
      <<4090, 4090, 4090, 4090>> }

InitMode == InitWith({1}, {<<"lo", "lo", "lo", "lo">>})

NextMode ==
    \/ \E r \in ModeReadings : ReadAnalog(r, 0, MaxIterMode)
    \/ \E step \in Steps, d \in NoDraws : StepChannel(step, d)

SpecMode == InitMode /\ [][NextMode]_vars

-----------------------------------------------------------------------------
(* The control loop with dial 0 swept over every position and held there, the   *)
(* other dials at 0, with a window of one sample.                               *)

DutyScript ==
    IF iter = 0
    THEN {<<a, 0, 0, 0>> : a \in 0 .. MaxDial}
    ELSE {<<aoutMap[0], 0, 0, 0>>}

InitDuty == InitWith({1}, {<<"lo", "lo", "lo", "lo">>})

NextDuty ==
    \/ \E r \in DutyScript : ReadAnalog(r, 0, MaxIterDuty)
    \/ \E step \in Steps, d \in NoDraws : StepChannel(step, d)

SpecDuty == InitDuty /\ [][NextDuty]_vars

-----------------------------------------------------------------------------
(* The control loop with one dial held at a position from the first iteration   *)
(* on and the other three dials at 0.                                           *)

HeldDials == {0, 1, 2000, MaxDial}

HoldScript ==
    IF iter = 0
    THEN {<<v, 0, 0, 0>> : v \in HeldDials} \cup {<<0, 0, v, 0>> : v \in HeldDials}
    ELSE {<<aoutMap[0], aoutMap[1], aoutMap[2], aoutMap[3]>>}

InitHold == InitWith(1 .. MaxWindowHold, {<<"lo", "lo", "lo", "lo">>})

NextHold ==
    \/ \E r \in HoldScript : ReadAnalog(r, 0, MaxIterHold)
    \/ \E step \in Steps, d \in NoDraws : StepChannel(step, d)

SpecHold == InitHold /\ [][NextHold]_vars

-----------------------------------------------------------------------------
(* The control loop in auto mode, one LED varying: the first reading makes the   *)
(* auto-mode gesture with dial 0 off, then dial 0 is turned up to full speed,    *)
(* dial 1 down to 12 and dials 2 and 3 off.  With a window of AutoWindow >= 3    *)
(* samples only the LED of step 1 ever has a median above aoutOff.               *)

AutoScript(i) ==
    IF i = 0 THEN {<<5, 4090, 4090, 4090>>} ELSE {<<4095, 12, 5, 5>>}

InitAuto == InitWith({AutoWindow}, InitPicks)

NextAuto ==
    \/ \E r \in AutoScript(iter), dt \in Ticks : ReadAnalog(r, dt, MaxIterAuto)
    \/ \E step \in Steps, d \in Draws : StepChannel(step, d)

SpecAuto == InitAuto /\ [][NextAuto]_vars

-----------------------------------------------------------------------------
(* Auto mode at a slower rate: after the gesture the rate dial is held in the   *)
(* range whose loop size is 4, so that randomAutoLoopMax gives limits 2 and 3.  *)

CountScript(i) ==
    IF i = 0 THEN {<<5, 4090, 4090, 4090>>} ELSE {<<3000, 12, 5, 5>>}

InitCount == InitWith({AutoWindow}, InitPicks)

NextCount ==
    \/ \E r \in CountScript(iter), dt \in Ticks : ReadAnalog(r, dt, MaxIterAuto)
    \/ \E step \in Steps, d \in Draws : StepChannel(step, d)

SpecCount == InitCount /\ [][NextCount]_vars

-----------------------------------------------------------------------------
(* Auto mode, one LED varying at two intensities: after the gesture dial 0 is   *)
(* at full speed and dials 2 and 3 are off; dial 1 stays near the top for two   *)
(* more readings and is then turned down to 12.  With a window of AutoWindow    *)
(* samples only the LED of step 1 ever has a median above aoutOff.              *)

OffsetScript(i) ==
    IF i = 0 THEN {<<5, 4090, 4090, 4090>>}
    ELSE IF i <= 2 THEN {<<4095, 4090, 5, 5>>}
    ELSE {<<4095, 12, 5, 5>>}

InitOffset == InitWith({AutoWindow}, InitPicks)

NextOffset ==
    \/ \E r \in OffsetScript(iter), dt \in Ticks : ReadAnalog(r, dt, MaxIterOffset)
    \/ \E step \in Steps, d \in Draws : StepChannel(step, d)

SpecOffset == InitOffset /\ [][NextOffset]_vars

-----------------------------------------------------------------------------
(* Auto mode with one LED varying over a long run: after the gesture dial 0 is  *)
(* at full speed, dials 2 and 3 are off and dial 1 is at 3000, where no offset  *)
(* meets a threshold, long enough for the offset of the LED of step 1 to travel *)
(* from 0 to its limit of 499; at any of the last iterations dial 1 is turned   *)
(* down to 400, where an offset near the limit puts the biased intensity below  *)
(* aoutOff.                                                                     *)

LongScript ==
    IF iter = 0 THEN {<<5, 4090, 4090, 4090>>}
    ELSE IF iter <= MaxIterLong - 20 THEN {<<4095, 3000, 5, 5>>}
    ELSE {<<4095, aoutMap[1], 5, 5>>, <<4095, 400, 5, 5>>}

InitLong == InitWith({AutoWindow}, {<<"lo", "hi", "lo", "hi">>})

NextLong ==
    \/ \E r \in LongScript, dt \in Ticks : ReadAnalog(r, dt, MaxIterLong)
    \/ \E step \in Steps, d \in Draws : StepChannel(step, d)

SpecLong == InitLong /\ [][NextLong]_vars

-----------------------------------------------------------------------------
(* The control loop running for ever in auto mode: the first reading makes the  *)
(* gesture with dial 0 off; from then on dial 0 is at full speed, dial 1 stays  *)
(* near the top and dials 2 and 3 are off.  The iteration count saturates, and  *)
(* once the clock has reached MaxTime it is held there and the two timestamps   *)
(* of every LED are moved back instead (never further than ZeroTime, so that    *)
(* every time.Since(...) > cooldown test keeps its outcome).                    *)

Max(a, b) == IF a > b THEN a ELSE b

Rebase(led, dt) ==
    [led EXCEPT !.lastLoopAdjust = Max(@ - dt, ZeroTime),
                !.lastOffsetAdjust = Max(@ - dt, ZeroTime)]

ReadAnalogLive(r, dt) ==
    /\ pc = "read"
    /\ iter' = Min(iter + 1, MaxIterLive)
    /\ IF now + dt <= MaxTime
       THEN now' = now + dt /\ LEDMap' = LEDMap
       ELSE now' = now /\ LEDMap' = [s \in Steps |-> Rebase(LEDMap[s], dt)]
    /\ aoutMap' = AsMap(r)
    /\ LET mode == calcAutoMode(autoMode, autoLoopStep, AsMap(r))
       IN  autoMode' = mode[1] /\ autoLoopStep' = mode[2]
    /\ todo' = Steps
    /\ written' = {}
    /\ pc' = "range"
    /\ UNCHANGED <<windowSize, stepLoopMax, prevLoopMax, medAout, duties, pwm, recent,
                   boot, adc>>

LiveScript ==
    IF iter = 0 THEN {<<5, 4090, 4090, 4090>>} ELSE {<<4095, 4090, 5, 5>>}

InitLive == InitWith({LiveWindow}, {<<"lo", "lo", "lo", "lo">>})

\* Every iteration sleeps for TickSeconds (the -sleep flag).
LiveTicks == {TickSeconds}

NextLive ==
    \/ \E r \in LiveScript, dt \in LiveTicks : ReadAnalogLive(r, dt)
    \/ \E step \in Steps, d \in MainDraws : StepChannel(step, d)

\* The for loop of main never stops.
SpecLive == InitLive /\ [][NextLive]_vars /\ WF_vars(NextLive)

-----------------------------------------------------------------------------
(* The control loop in auto mode with the rate-control dial swept: the first    *)
(* reading makes the gesture with dial 0 off, the second puts dial 0 at any     *)
(* position (dial 1 at 12, dials 2 and 3 off), and later ones hold it there.    *)

\* Positions of the rate-control dial: both sides of every case of calcStepLoopMax.
RateDials ==
    {0, 19, 20, 59, 60, 129, 130, 199, 200, 399, 400, 799, 800, 1199, 1200,
     1999, 2000, 3499, 3500, 4089, 4090, MaxDial}

RateScript ==
    IF iter = 0 THEN {<<5, 4090, 4090, 4090>>}
    ELSE IF iter = 1 THEN {<<a, 12, 5, 5>> : a \in RateDials}
    ELSE {<<aoutMap[0], aoutMap[1], aoutMap[2], aoutMap[3]>>}

InitRate == InitWith({1}, {<<"lo", "lo", "lo", "lo">>})

NextRate ==
    \/ \E r \in RateScript : ReadAnalog(r, 0, MaxIterRate)
    \/ \E step \in Steps, d \in NoDraws : StepChannel(step, d)

SpecRate == InitRate /\ [][NextRate]_vars

-----------------------------------------------------------------------------
(* The ADC driver read by the control loop: ReadAnalog is called MaxCalls times *)
(* on an ADC whose FIFO holds up to MaxStale entries from before the program    *)
(* started; the ADC converts the enabled steps at its own pace.                 *)

\* n entries left in the FIFO before the program started.
StaleFifo(n) == [i \in 1 .. n |-> Entry((i - 1) % 4, 77, 0)]
StaleFifos == {StaleFifo(n) : n \in 0 .. MaxStale}

\* Values the ADC samples.
AdcValues == {5, 4090}

InitAdc ==
    /\ LoopInit({1}, {<<"lo", "lo", "lo", "lo">>})
    /\ boot = Started(clockDividerMin)
    /\ adc \in {Initialized(clockDividerMin, f) : f \in StaleFifos}

NextAdc ==
    \/ ReadAnalogEnter
    \/ ReadAnalogDrain
    \/ enableStepSequencer
    \/ \E step \in Steps, v \in AdcValues : Convert(step, v)
    \/ ReadAnalogHarvest
    \/ disableStepSequencer

SpecAdc == InitAdc /\ [][NextAdc]_vars

-----------------------------------------------------------------------------
(* The program from the first statement of main: startup, ADCInit, and then the *)
(* ReadAnalog calls of the control loop.                                        *)

\* Values of the -divider flag, on both sides of the limits of line 397 and of
\* the range of a byte.
Dividers == {0, clockDividerMin, 160, ByteValues, ByteValues + 1,
             clockDividerMax, clockDividerMax + 1}

InitStartup ==
    /\ LoopInit({1}, {<<"lo", "lo", "lo", "lo">>})
    /\ boot \in {Booting(d) : d \in Dividers}
    /\ adc \in {Unstarted(f) : f \in StaleFifos}

NextStartup ==
    \/ \E ok \in BOOLEAN : ParseSleep(ok)
    \/ CheckDivider
    \/ \E ok \in BOOLEAN : AddOverlay(ok)
    \/ \E ok \in BOOLEAN : newPWM(ok)
    \/ \E ok \in BOOLEAN : mmapInit(ok)
    \/ ADCInitClock
    \/ ClockLatch
    \/ ADCInitWait
    \/ ADCInitCtrl
    \/ ADCInitClkdiv
    \/ ADCInitSteps
    \/ ADCInitProtect
    \/ ReadAnalogEnter
    \/ ReadAnalogDrain
    \/ enableStepSequencer
    \/ \E step \in Steps, v \in AdcValues : Convert(step, v)
    \/ ReadAnalogHarvest
    \/ disableStepSequencer

SpecStartup == InitStartup /\ [][NextStartup]_vars

-----------------------------------------------------------------------------
(* The program from the first statement of main with the default divider, under *)
(* fairness: a statement of the program that can run does run, and the clock    *)
(* module, once asked, shows its enable bit.                                    *)

InitFair ==
    /\ LoopInit({1}, {<<"lo", "lo", "lo", "lo">>})
    /\ boot = Booting(clockDividerMin)
    /\ adc \in {Unstarted(f) : f \in StaleFifos}

\* The statements of main and of the ADC driver (not the hardware).
ProgramStep ==
    \/ \E ok \in BOOLEAN : ParseSleep(ok)
    \/ CheckDivider
    \/ \E ok \in BOOLEAN : AddOverlay(ok)
    \/ \E ok \in BOOLEAN : newPWM(ok)
    \/ \E ok \in BOOLEAN : mmapInit(ok)
    \/ ADCInitClock
    \/ ADCInitWait
    \/ ADCInitCtrl
    \/ ADCInitClkdiv
    \/ ADCInitSteps
    \/ ADCInitProtect
    \/ ReadAnalogEnter
    \/ ReadAnalogDrain
    \/ enableStepSequencer
    \/ ReadAnalogHarvest
    \/ disableStepSequencer

NextFair ==
    \/ ProgramStep
    \/ ClockLatch
    \/ \E step \in Steps, v \in AdcValues : Convert(step, v)

SpecFair ==
    InitFair /\ [][NextFair]_vars /\ WF_vars(ProgramStep) /\ WF_vars(ClockLatch)

-----------------------------------------------------------------------------
(* The control loop and the ways the process ends once it is in the loop, for   *)
(* -window flags on both sides of 1.  main has no test of the flag.  For a flag *)
(* below 1 ring.New gives a nil ring and initWindow returns it; calcMedian then  *)
(* panics in the first pass of the range loop (make with a negative capacity,   *)
(* or window.Value on the nil ring), and a panic runs the deferred call of      *)
(* line 404 before the process ends.                                            *)

\* Values of the -window flag.
ExitWindows == {-1, 0, 1}

\* ring.New(n) is nil for n <= 0.
NilRing(n) == n <= 0

\* calcMedian panics for the first step the range loop takes.
calcMedianPanic(step) ==
    /\ boot.pos = "loop"
    /\ pc = "range"
    /\ step \in todo
    /\ NilRing(windowSize)
    /\ boot' = [boot EXCEPT !.pos = "panic", !.failedAt = "calcMedian"]
    /\ UNCHANGED <<loopVars, adc>>

\* The deferred ADCDisable, run by the panic: ADC_CTRL is written with
\* CTRL_DISABLE and the file of the mapping is closed; the process then ends.
ADCDisable ==
    /\ boot.pos = "panic"
    /\ adc' = [adc EXCEPT !.ctrl = {}, !.pos = "closed"]
    /\ boot' = [boot EXCEPT !.pos = "crashed", !.done = @ \cup {"ADCDisable"}]
    /\ UNCHANGED loopVars

\* The process is killed from outside: no deferred call runs.
Kill ==
    /\ boot.pos = "loop"
    /\ boot' = [boot EXCEPT !.pos = "killed"]
    /\ UNCHANGED <<loopVars, adc>>

InitExit == InitWith(ExitWindows, {<<"lo", "lo", "lo", "lo">>})

NextExit ==
    \/ \E r \in Readings : boot.pos = "loop" /\ ReadAnalog(r, 0, MaxIterExit)
    \/ \E step \in Steps, d \in MainDraws :
           boot.pos = "loop" /\ ~NilRing(windowSize) /\ StepChannel(step, d)
    \/ \E step \in Steps : calcMedianPanic(step)
    \/ ADCDisable
    \/ Kill

SpecExit == InitExit /\ [][NextExit]_vars

-----------------------------------------------------------------------------
(* Claims *)

AppliedSum == SumOver(pwm, Steps)
ProposedSum == SumOver(duties, Steps)

\* C1: after every completed loop iteration the duties last written to the four
\* PWM lines sum to at most maxTotalDuty.
C1_AppliedWithinBudget == pc = "read" => AppliedSum <= maxTotalDuty

\* C2: after every completed loop iteration each PWM line carries its step's
\* saved proposed duty scaled by the one factor min(1, maxTotalDuty / sum of the
\* four saved proposed duties).
C2_AppliedIsCommonScaling ==
    pc = "read" =>
        \A s \in Steps :
            pwm[s] = IF ProposedSum > maxTotalDuty
                     THEN MulDivBudget(duties[s], ProposedSum)
                     ELSE duties[s]

\* The sign of a/b - c/d for naturals a, c and positive b, d, by comparing the
\* continued fractions (no product is formed).
RECURSIVE CmpFrac(_, _, _, _)
CmpFrac(a, b, c, d) ==
    LET qa == a \div b
        qc == c \div d
        ra == a % b
        rc == c % d
    IN  IF qa # qc THEN (IF qa < qc THEN -1 ELSE 1)
        ELSE IF ra = 0 /\ rc = 0 THEN 0
        ELSE IF ra = 0 THEN -1
        ELSE IF rc = 0 THEN 1
        ELSE -CmpFrac(b, ra, d, rc)

\* q = floor(maxTotalDuty * duty / sum), i.e. q*sum <= maxTotalDuty*duty < (q+1)*sum.
IsScaledFloor(q, duty, sum) ==
    IF duty = 0 THEN q = 0
    ELSE /\ CmpFrac(q, duty, maxTotalDuty, sum) <= 0
         /\ CmpFrac(maxTotalDuty, sum, q + 1, duty) < 0

\* Proposed duties normalize is tried on: those of the intensities below.
SampleIntensities == {0, 14, 15, 100, 2000, 4095}
SampleDuties == {calcDuty(a) : a \in SampleIntensities}

\* C3: normalize returns the proposed duty unchanged when the saved duties sum to
\* at most maxTotalDuty, otherwise floor(maxTotalDuty * duty / sum); its result is
\* never greater than the proposed duty.
C3_NormalizeContract ==
    \A duty \in SampleDuties :
        LET r == normalize(duties, duty)
        IN  /\ ProposedSum <= maxTotalDuty => r = duty
            /\ ProposedSum > maxTotalDuty => IsScaledFloor(r, duty, ProposedSum)
            /\ r <= duty

\* C3 witness: the saved duties exceed the budget and a line was set to a duty
\* scaled below its proposed duty.
C3_Witness ==
    /\ ProposedSum > maxTotalDuty
    /\ \E s \in written : pwm[s] < duties[s]

\* The step whose loop body a transition runs (none for the other transitions).
Visited(s) == s \in todo /\ s \notin todo'

\* C4 as claimed: a line is set only when the normalized duty differs from the
\* duty the line carried before.
C4_WriteOnlyOnAppliedChange ==
    [][\A s \in Steps : (Visited(s) /\ s \in written') => pwm'[s] # pwm[s]]_vars

\* C4 as amended: in manual mode a line is set exactly when the duty proposed for
\* its step, calcDuty of the new median, differs from the proposed duty saved for
\* the step; the duty then set is the proposed one normalized against the
\* duties saved before, and may equal the duty the line already carried.
C4_WriteOnProposedChange ==
    [][\A s \in Steps :
          Visited(s) =>
              LET newDuty == calcDuty(medAout'[s])
              IN  /\ (s \in written') <=> (newDuty # duties[s])
                  /\ duties'[s] = newDuty
                  /\ pwm'[s] = IF newDuty # duties[s]
                                THEN normalize(duties, newDuty)
                                ELSE pwm[s]]_vars

\* C4 witness: in one iteration, after the first, a line was set to a normalized
\* duty and another step was visited without its line being set.
C4_Witness ==
    /\ iter > 1
    /\ \E s \in written : pwm[s] < duties[s]
    /\ \E s \in Steps : s \notin todo /\ s \notin written

\* The element at 0-based index k of the values of f in ascending order, by
\* counting: at most k values are smaller and more than k are not greater.
KthSmallest(f, k) ==
    CHOOSE v \in {f[i] : i \in DOMAIN f} :
        /\ Cardinality({i \in DOMAIN f : f[i] < v}) <= k
        /\ Cardinality({i \in DOMAIN f : f[i] <= v}) > k

Window(s) == LEDMap[s].win.vals
IsEven(n) == n % 2 = 0

\* C5 as claimed: the filter's output is the middle element of the sorted window,
\* and for an even capacity N the lower-middle one, at 0-based index N/2 - 1.
C5_MedianLowerMiddle ==
    \A s \in Steps :
        medAout[s] = KthSmallest(Window(s),
                                 IF IsEven(windowSize)
                                 THEN windowSize \div 2 - 1
                                 ELSE (windowSize - 1) \div 2)

\* C5 as amended: the filter's output is the element at 0-based index N div 2 of
\* the sorted window: the middle one for odd N, the upper-middle one for even N.
C5_MedianUpperMiddle ==
    \A s \in Steps : medAout[s] = KthSmallest(Window(s), windowSize \div 2)

\* C5 witness: an even capacity, and a filter updated to a window whose two
\* middle elements differ.
C5_Witness ==
    /\ IsEven(windowSize)
    /\ \E s \in Steps :
           /\ s \notin todo /\ iter > 0
           /\ KthSmallest(Window(s), windowSize \div 2 - 1)
                  # KthSmallest(Window(s), windowSize \div 2)

\* The window w with its slots rearranged by the permutation p of the slot
\* indices: the value of slot i moves to slot p[i], and so does the ring position.
Rearranged(w, p) ==
    [vals |-> [j \in DOMAIN w.vals |-> w.vals[CHOOSE i \in DOMAIN w.vals : p[i] = j]],
     pos |-> p[w.pos]]

SlotPermutations(n) ==
    {p \in [0 .. n - 1 -> 0 .. n - 1] : \A i, j \in 0 .. n - 1 : p[i] = p[j] => i = j}

SampleReadings == {0, 14, 4095}

\* C7: the filter's output is the same for any two windows that hold the same
\* values in different slot orders, for the same new sample overwriting the same
\* value (tried on every window the loop leaves behind, every rearrangement of
\* its slots and every sample reading).
C7_MedianOfMultiset ==
    pc = "read" =>
        \A s \in Steps : \A p \in SlotPermutations(windowSize) :
            \A aout \in SampleReadings :
                calcMedian(Rearranged(LEDMap[s].win, p), aout, windowSize)
                    = calcMedian(LEDMap[s].win, aout, windowSize)

\* C7 witness: a window of at least three slots that holds different values, so
\* that some rearrangement of its slots is not a rotation of the ring.
C7_Witness ==
    /\ pc = "read"
    /\ windowSize >= 3
    /\ \E s \in Steps : \E i, j \in DOMAIN Window(s) : Window(s)[i] # Window(s)[j]

\* The samples q, oldest first, after the zeros of initWindow that they have not
\* yet replaced: n values in all.
PadZeros(q, n) == [i \in 1 .. n |-> IF i <= n - Len(q) THEN 0 ELSE q[i - (n - Len(q))]]

\* C6: in either mode and for every step, the rate-control step included, each
\* filter update overwrites the oldest slot of the step's window and leaves the
\* other slots alone: from the ring pointer on, the window holds the step's most
\* recent raw samples, oldest first (after k >= N updates exactly the last N).
C6_WindowHoldsLatestSamples ==
    \A s \in Steps :
        /\ Len(recent[s]) = Min(iter - (IF s \in todo THEN 1 ELSE 0), windowSize)
        /\ RingSeq(LEDMap[s].win, windowSize) = PadZeros(recent[s], windowSize)

\* C6 witness: auto mode is on and the window of the rate-control step, of at
\* least two slots, has been filled with samples that differ.
C6_Witness ==
    /\ pc = "read" /\ autoMode
    /\ windowSize >= 2 /\ Len(recent[autoLoopStep]) = windowSize
    /\ recent[autoLoopStep][1] # recent[autoLoopStep][2]

\* C8: in every reachable state every LED's offset lies within its own limit,
\* -autoOffsetMax <= autoOffset <= autoOffsetMax.
C8_OffsetWithinLimit ==
    \A s \in Steps :
        /\ -LEDMap[s].autoOffsetMax <= LEDMap[s].autoOffset
        /\ LEDMap[s].autoOffset <= LEDMap[s].autoOffsetMax

\* An offset step of the LED of step s: autoAdjust added offsetDelta to the offset.
OffsetStep(s) == LEDMap'[s].autoOffset # LEDMap[s].autoOffset

\* C9: an offset step that travels up and leaves the offset at +autoOffsetMax, or
\* travels down and leaves it at -autoOffsetMax, leaves an offsetDelta of the
\* opposite sign for the next offset step.
C9_ReflectedAtLimit ==
    [][\A s \in Steps :
          OffsetStep(s) =>
              /\ (LEDMap[s].autoOffsetDelta > 0
                    /\ LEDMap'[s].autoOffset = LEDMap'[s].autoOffsetMax)
                     => LEDMap'[s].autoOffsetDelta < 0
              /\ (LEDMap[s].autoOffsetDelta < 0
                    /\ LEDMap'[s].autoOffset = -LEDMap'[s].autoOffsetMax)
                     => LEDMap'[s].autoOffsetDelta > 0]_vars

\* The raw readings of the iteration that has just been read.
BelowOff(m) == {s \in Steps : m[s] < aoutOff}
AboveOn(m) == {s \in Steps : m[s] > aoutOn}

\* C10: at the start of an iteration, four raw readings below aoutOff switch auto
\* mode off; exactly one below aoutOff with the other three above aoutOn switches
\* it on with the low step as the rate control; whatever the mode was before.
C10_ModeDecision ==
    [][(pc = "read" /\ pc' = "range") =>
          /\ BelowOff(aoutMap') = Steps => ~autoMode'
          /\ (Cardinality(BelowOff(aoutMap')) = 1
                /\ AboveOn(aoutMap') = Steps \ BelowOff(aoutMap'))
               => (autoMode' /\ autoLoopStep' \in BelowOff(aoutMap'))]_vars

\* Auto mode was on with step 0 as the rate control (the previous iteration read
\* {5, 4090, 4090, 4090}) and the four readings just taken are all below aoutOff.
C10_Witness ==
    /\ pc = "range" /\ todo = Steps /\ iter = 2
    /\ BelowOff(aoutMap) = Steps
    /\ ~autoMode
    /\ recent[0] # <<>> /\ recent[0][Len(recent[0])] = 5
    /\ \A s \in Steps \ {0} : recent[s] # <<>> /\ recent[s][Len(recent[s])] = 4090

\* The readings make neither gesture: not all four below aoutOff, and not one
\* below aoutOff with the other three above aoutOn.
NoGesture(m) ==
    /\ BelowOff(m) # Steps
    /\ ~(Cardinality(BelowOff(m)) = 1 /\ AboveOn(m) = Steps \ BelowOff(m))

\* C11: an iteration whose raw readings make neither gesture leaves autoMode and
\* autoLoopStep as they were, and four readings below aoutOff leave autoLoopStep
\* as it was.
C11_Hysteresis ==
    [][(pc = "read" /\ pc' = "range") =>
          /\ NoGesture(aoutMap') =>
                 (autoMode' = autoMode /\ autoLoopStep' = autoLoopStep)
          /\ BelowOff(aoutMap') = Steps => autoLoopStep' = autoLoopStep]_vars

\* Auto mode is on with step 3 as the rate control, and the readings just taken
\* have step 0 alone below aoutOff but step 1 at aoutOn, not above it.
C11_Witness ==
    /\ pc = "range" /\ todo = Steps
    /\ aoutMap = AsMap(<<5, 4000, 4090, 4090>>)
    /\ autoMode /\ autoLoopStep = 3

\* The loop body has run for step s in the current iteration.
Done(s) == iter > 0 /\ s \notin todo

\* The largest intensity setDuty can be handed: a full dial plus the largest
\* offset an LED can carry.
MaxIntensity == MaxDial + autoOffsetMax + autoOffsetDelta

\* C12: the duty proposed for an intensity is at most the duty proposed for the
\* next intensity, is ainMinPad at intensity 0, is never above the ceiling 499990
\* (which is below pwmPeriod), and is the ceiling from a full dial up to the
\* largest intensity of auto mode.
C12_DutyCurve ==
    Done(0) =>
        LET a == aoutMap[0]
        IN  /\ duties[0] <= calcDuty(a + 1)
            /\ a = 0 => duties[0] = ainMinPad
            /\ duties[0] <= dutyCeiling /\ dutyCeiling < pwmPeriod
            /\ a = MaxDial =>
                   /\ duties[0] = dutyCeiling
                   /\ \A b \in MaxDial .. MaxIntensity :
                          calcDuty(b) = dutyCeiling /\ calcDuty(b) <= calcDuty(b + 1)

\* Dial 0 is at its top position and the duty proposed for it is the ceiling.
C12_Witness ==
    /\ Done(0) /\ aoutMap[0] = MaxDial
    /\ duties[0] = dutyCeiling /\ pwm[0] = dutyCeiling
    /\ 0 \in written /\ pc = "read"

\* The window of step s is filled with samples that all equal its present reading.
FilledWith(s) ==
    /\ Done(s)
    /\ Len(recent[s]) = windowSize
    /\ \A i \in 1 .. windowSize : recent[s][i] = aoutMap[s]

\* C13: in manual mode, once the window of a step is filled with one raw value v,
\* the median of the step is v and its PWM line carries the normalized calcDuty(v).
C13_HeldDialSettles ==
    \A s \in Steps :
        (~autoMode /\ FilledWith(s)) =>
            /\ medAout[s] = aoutMap[s]
            /\ pwm[s] = normalize(duties, calcDuty(aoutMap[s]))

\* Dial 0 has been held at 2000 for more iterations than the window of 3 samples
\* holds, its median is 2000 and its line carries calcDuty(2000) = 120025 ns.
C13_Witness ==
    /\ ~autoMode /\ windowSize = 3 /\ iter > windowSize
    /\ FilledWith(0) /\ aoutMap = AsMap(<<2000, 0, 0, 0>>)
    /\ medAout[0] = 2000 /\ pwm[0] = 120025

\* The intensity handed to setDuty for an LED of auto mode: median plus offset.
Biased(s) == medAout[s] + LEDMap[s].autoOffset

\* Step s is an LED of auto mode whose median is c, above aoutOff.
VariesAt(s, c) ==
    /\ autoMode /\ s # autoLoopStep
    /\ medAout[s] = c /\ c > aoutOff

\* C14: an LED of auto mode whose median stays at one value above aoutOff keeps
\* oscillating: its offsetDelta is positive again and again and negative again
\* and again, and its biased intensity is below aoutOn again and again and above
\* aoutOff again and again (it stays at neither extreme for ever).
C14_KeepsOscillating ==
    \A s \in Steps \ {0} :
        <>[]VariesAt(s, 4090) =>
            /\ []<>(LEDMap[s].autoOffsetDelta > 0)
            /\ []<>(LEDMap[s].autoOffsetDelta < 0)
            /\ []<>(Biased(s) < aoutOn)
            /\ []<>(Biased(s) > aoutOff)

\* The loop sizes calcStepLoopMax gives over the positions of a dial.
LoopSizes == {calcStepLoopMax(a) : a \in 0 .. MaxDial}

\* C15: over the medians 0 .. 4095 calcStepLoopMax takes exactly 10 distinct
\* values, and the loop size the rate-control dial has set is one of them.
C15_TenRates ==
    /\ Cardinality(LoopSizes) = 10
    /\ (autoMode /\ Done(autoLoopStep)) => stepLoopMax \in LoopSizes

\* The steps for which the map of the current ReadAnalog call holds a value.
Returned == {s \in Steps : adc.result[s] # NoEntry}

\* C16: every value a ReadAnalog call returns was stored by the ADC during that
\* call; the FIFO is empty when the steps are about to be enabled, and holds only
\* entries of the current call while the ADC is enabled; a call that found
\* entries left over has logged them and the process runs on.
C16_LeftoversDiscarded ==
    /\ (adc.pos = "idle" /\ adc.calls > 0) =>
           \A s \in Returned : adc.result[s].call = adc.calls
    /\ adc.pos = "enable" => adc.fifo = <<>>
    /\ "enable" \in adc.ctrl =>
           \A i \in 1 .. Len(adc.fifo) : adc.fifo[i].call = adc.calls
    /\ adc.logged => boot.pos = "loop"

\* The second call found an entry the ADC stored late in the first call, logged
\* it, and has returned values of its own.
C16_Witness ==
    /\ adc.pos = "idle" /\ adc.calls = 2
    /\ adc.logged
    /\ Returned # {}

\* No register of the ADC has been written and no mapping exists.
AdcUntouched == adc = Unstarted(adc.fifo)

\* What has happened by the time of the first ReadAnalog call, and what has not
\* happened when main has exited at a startup step.
StartupOrder ==
    /\ adc.calls > 0 =>
           /\ {"sleep", "divider", "pwm", "mmap"} \subseteq boot.done
           /\ boot.lines = 4 /\ adc.isMapped
           /\ 1 <= boot.clockDivider /\ boot.clockDivider <= 65534
    /\ boot.pos = "fatal" =>
           /\ adc.calls = 0
           /\ boot.failedAt = "sleep" => (boot.done = {} /\ boot.lines = 0 /\ AdcUntouched)
           /\ boot.failedAt = "divider" => (boot.lines = 0 /\ AdcUntouched)
           /\ boot.failedAt = "overlay" => (boot.lines = 0 /\ AdcUntouched)
           /\ boot.failedAt = "pwm" => (boot.lines < 4 /\ AdcUntouched)
           /\ boot.failedAt = "mmap" => (boot.lines = 4 /\ AdcUntouched)
    /\ (boot.clockDivider < 1 \/ boot.clockDivider > 65534) =>
           (boot.lines = 0 /\ AdcUntouched)

\* C17: the first ReadAnalog call comes after the sleep duration is parsed, the
\* divider is found in 1..65534, the four PWM lines are acquired and the memory
\* is mapped; a startup step that fails ends the process there, with no later
\* step made (no step at all is made from the exit), and a divider out of range
\* ends it before a PWM line is acquired or a register written.
C17_StartupOrder == [][boot.pos # "fatal" /\ StartupOrder']_vars

\* The first ReadAnalog call is under way after a startup with the largest
\* divider accepted.
C17_Witness ==
    /\ adc.calls = 1 /\ adc.pos = "drain"
    /\ boot.pos = "loop" /\ boot.clockDivider = clockDividerMax

\* C18: when ADCInit has returned after a divider d accepted at startup, the
\* clock-divider register holds d - 1.
C18_DividerProgrammed ==
    boot.pos = "loop" => adc.clkdiv = boot.clockDivider - 1

\* The auto-mode state of an LED, without its pending loop-size flag.
AutoState(led) ==
    <<led.autoLoop, led.autoLoopMax, led.autoOffset, led.autoOffsetDelta,
      led.autoOffsetMax, led.lastOffsetAdjust, led.lastLoopAdjust>>

\* C19: the auto-mode state of an LED changes only when the loop body runs for
\* its step in auto mode, the step is not the rate control and its new median is
\* above aoutOff; in manual mode, for the rate-control step and for a median at
\* or below aoutOff the counters, limits, offset, direction and timestamps stay.
C19_AutoStateFrame ==
    [][\A s \in Steps :
          AutoState(LEDMap'[s]) # AutoState(LEDMap[s]) =>
              /\ Visited(s)
              /\ autoMode /\ s # autoLoopStep
              /\ medAout'[s] > aoutOff]_vars

\* Auto mode has been switched off again and an LED still carries the offset it
\* took while auto mode was on.
C19_Witness ==
    /\ pc = "read" /\ iter = 2 /\ ~autoMode
    /\ \E s \in Steps : LEDMap[s].autoOffset # 0

\* autoAdjust is called for step s in this transition.
Advanced(s) ==
    Visited(s) /\ autoMode /\ s # autoLoopStep /\ medAout'[s] > aoutOff

\* An advance of step s without a pending loop-size flag that keeps the limit.
SteadyAdvance(s) ==
    /\ Advanced(s)
    /\ ~LEDMap[s].updateLoopSize
    /\ LEDMap'[s].autoLoopMax = LEDMap[s].autoLoopMax

\* Step s leaves the advance with its offset moved by the delta it had and its
\* counter at zero.
OffsetStepped(s) ==
    /\ LEDMap'[s].autoOffset = LEDMap[s].autoOffset + LEDMap[s].autoOffsetDelta
    /\ LEDMap'[s].autoLoop = 0

\* Step s leaves the advance with its offset as it was and its counter one up.
OffsetKept(s) ==
    /\ LEDMap'[s].autoOffset = LEDMap[s].autoOffset
    /\ LEDMap'[s].autoLoop = LEDMap[s].autoLoop + 1

\* C20 as claimed: in an advance with no pending flag and an unchanged limit L
\* the offset is stepped, and the counter reset, when the incremented counter
\* has reached L, and is left alone otherwise: one step every L advances.
C20_SteppedAtLimit ==
    [][\A s \in Steps :
          SteadyAdvance(s) =>
              IF LEDMap[s].autoLoop + 1 >= LEDMap[s].autoLoopMax
              THEN OffsetStepped(s) ELSE OffsetKept(s)]_vars

\* C20 as amended: the offset is stepped, and the counter reset, in the advance
\* in which the incremented counter exceeds L, and is left alone in every other
\* advance: one step every L + 1 advances.
C20_SteppedPastLimit ==
    [][\A s \in Steps :
          SteadyAdvance(s) =>
              IF LEDMap[s].autoLoop + 1 > LEDMap[s].autoLoopMax
              THEN OffsetStepped(s) ELSE OffsetKept(s)]_vars

\* An LED with a limit above 1 and no pending flag has counted up to its limit:
\* the advance that reached the limit kept the offset, the next one steps it.
C20_Witness ==
    \E s \in Steps :
        /\ ~LEDMap[s].updateLoopSize
        /\ LEDMap[s].autoLoopMax > 1
        /\ LEDMap[s].autoLoop = LEDMap[s].autoLoopMax
        /\ LEDMap[s].autoOffset # 0

\* C21: when the rate-control step maps its median to a loop size other than the
\* one of the iteration before, every LED has its loop-size flag set in that
\* iteration; and an LED advanced with the flag set leaves the advance, whatever
\* its counter, with the flag cleared and a limit drawn from the current loop
\* size L, between max(1, L div 2) and max(1, L - 1).
C21_RateChangeFlagged ==
    [][\A s \in Steps :
          /\ (Visited(s) /\ autoMode /\ s = autoLoopStep
                  /\ stepLoopMax' # stepLoopMax)
                 => \A c \in Steps : LEDMap'[c].updateLoopSize
          /\ (Advanced(s) /\ LEDMap[s].updateLoopSize)
                 => /\ ~LEDMap'[s].updateLoopSize
                    /\ LEDMap'[s].autoLoopMax >= Max(1, stepLoopMax \div 2)
                    /\ LEDMap'[s].autoLoopMax <= Max(1, stepLoopMax - 1)]_vars

\* The rate dial was turned from loop size 1024 to loop size 4 and the LED of
\* step 1, flagged by that change, has taken a limit drawn from 4.
C21_Witness ==
    /\ stepLoopMax = 4
    /\ ~LEDMap[1].updateLoopSize
    /\ LEDMap[1].autoLoopMax \in 2 .. 3
    /\ LEDMap[0].updateLoopSize

\* The cap of lines 227-230 for the median of step s after the transition.
OffsetCap(s) == Min(autoOffsetMaxRatio * medAout'[s], autoOffsetMax)

\* C22: whenever the offset limit of an LED is drawn again, the new limit is at
\* most autoOffsetMax (500), at most autoOffsetMaxRatio (2) times the median of
\* the LED in that iteration, and at least half of the smaller of the two.
C22_OffsetLimitCapped ==
    [][\A s \in Steps :
          LEDMap'[s].autoOffsetMax # LEDMap[s].autoOffsetMax =>
              /\ LEDMap'[s].autoOffsetMax <= autoOffsetMax
              /\ LEDMap'[s].autoOffsetMax <= autoOffsetMaxRatio * medAout'[s]
              /\ offsetRangeRatio * LEDMap'[s].autoOffsetMax >= OffsetCap(s)]_vars

\* The LED of step 1, at a median of 12, drew a limit under the cap of twice its
\* median.
C22_Witness ==
    /\ medAout[1] = 12
    /\ LEDMap[1].lastOffsetAdjust # ZeroTime
    /\ LEDMap[1].autoOffsetMax \in {12, 23}

\* The loop sizes randomAutoLoopMax is called with: the initial autoLoopMax, the
\* values of calcStepLoopMax, and 0 for a stepLoopMax that was never set.
LoopMaxArguments == {0, autoLoopMax} \cup {calcStepLoopMax(a) : a \in RateDials}

\* Medians autoAdjust is called with: the lowest one above aoutOff, the ones
\* around the point where twice the median passes autoOffsetMax, and the highest.
AdjustedMedians ==
    {aoutOff + 1, autoOffsetMax \div autoOffsetMaxRatio - 1,
     autoOffsetMax \div autoOffsetMaxRatio, autoOffsetMax \div autoOffsetMaxRatio + 1,
     MaxDial}

\* C23: in every state the offset limit of every LED is between 1 and
\* autoOffsetMax (500) and its loop limit between 1 and the largest loop size
\* (1024); randomAutoLoopMax stays in that range for every loop size it can be
\* given, 0 included, and randomAutoOffsetMax for the cap of every median above
\* aoutOff, at either end of the draw.
C23_LimitsBounded ==
    /\ \A s \in Steps :
           /\ LEDMap[s].autoOffsetMax >= 1
           /\ LEDMap[s].autoOffsetMax <= autoOffsetMax
           /\ LEDMap[s].autoLoopMax >= 1
           /\ LEDMap[s].autoLoopMax <= calcStepLoopMax(0)
    /\ \A L \in LoopMaxArguments, pick \in Picks :
           /\ randomAutoLoopMax(L, pick) >= 1
           /\ randomAutoLoopMax(L, pick) <= calcStepLoopMax(0)
    /\ \A aout \in AdjustedMedians, pick \in Picks :
           LET offsetMax == Min(aout * autoOffsetMaxRatio, autoOffsetMax)
           IN  /\ randomAutoOffsetMax(offsetMax, pick) >= 1
               /\ randomAutoOffsetMax(offsetMax, pick) <= autoOffsetMax

\* The LED of step 1 has drawn both limits again at the fastest rate and a low
\* intensity: its loop limit is 1 and its offset limit is half of the cap of 24.
C23_Witness ==
    /\ stepLoopMax = 1
    /\ LEDMap[1].autoLoopMax = 1
    /\ LEDMap[1].autoOffsetMax = 12

\* The LED of step s as line 212 leaves it in an advance that steps the offset.
Stepped(s) ==
    [LEDMap[s] EXCEPT !.autoOffset = @ + LEDMap[s].autoOffsetDelta]

\* C24: an LED draws for a new offset limit (its lastOffsetAdjust is set) only in
\* an advance, more than autoOffsetAdjust (5 s) after its previous draw, and only
\* when the stepped offset met a boundary so that the direction was reflected;
\* it draws for a new loop limit under the cooldown (its lastLoopAdjust is set)
\* only in an advance and more than autoLoopAdjust (5 s) after the previous such
\* draw.  Each timestamp is set to the time of the draw.
C24_DrawsThrottled ==
    [][\A s \in Steps :
          /\ LEDMap'[s].lastOffsetAdjust # LEDMap[s].lastOffsetAdjust =>
                 /\ Advanced(s)
                 /\ LEDMap'[s].lastOffsetAdjust = now
                 /\ now - LEDMap[s].lastOffsetAdjust > autoOffsetAdjust
                 /\ HitBoundary(Stepped(s), medAout'[s])
          /\ LEDMap'[s].lastLoopAdjust # LEDMap[s].lastLoopAdjust =>
                 /\ Advanced(s)
                 /\ LEDMap'[s].lastLoopAdjust = now
                 /\ now - LEDMap[s].lastLoopAdjust > autoLoopAdjust]_vars

\* The LED of step 1 has drawn a second time for each limit, at a median of 12
\* and more than the cooldown after its first draws.
C24_Witness ==
    /\ medAout[1] = 12
    /\ LEDMap[1].lastOffsetAdjust > autoOffsetAdjust
    /\ LEDMap[1].lastLoopAdjust > autoLoopAdjust

\* The steps the ADC has converted during the current ReadAnalog call: their
\* entries are in the FIFO or in the map the call is building.
Converted ==
    {s \in Steps : adc.result[s].call = adc.calls}
        \cup {adc.fifo[i].step : i \in {j \in 1 .. Len(adc.fifo) :
                                            adc.fifo[j].call = adc.calls}}

\* ReadAnalog is between its call of enableStepSequencer and the end of its call
\* of disableStepSequencer.
Sequencing == adc.pos \in {"harvest", "disable"}

C26_ConfiguredUnprotected ==
    /\ ~adc.cfgWhileProtected
    /\ "wpOff" \in adc.ctrl => adc.pos \in {"clkdiv", "stepcfg", "protect"}
    /\ adc.pos \in {"clock", "wait", "ctrl", "clkdiv", "stepcfg"} =>
           adc.stepConfig = {}
    /\ (boot.pos = "loop" /\ adc.calls = 0) =>
           (adc.ctrl = {"stepIdTag"} /\ adc.stepConfig = Steps)
    /\ boot.pos = "loop" =>
           ("wpOff" \notin adc.ctrl /\ "stepIdTag" \in adc.ctrl)

\* ADCInit has returned with the four steps configured and main has not called
\* ReadAnalog yet.
C26_Witness ==
    /\ boot.pos = "loop" /\ adc.pos = "idle" /\ adc.calls = 0
    /\ adc.stepConfig = Steps
    /\ adc.ctrl = {"stepIdTag"}

\* C27: ADCInit, once it has its memory mapping, returns, given that the clock
\* module eventually shows the enable bit it was asked for.  Before the wait of
\* lines 157-159 has seen the bit, ADCInit writes none of ADC_CTRL, ADC_CLKDIV
\* and the step registers; the wait is left only with the bit set, for the
\* write of ADC_CTRL, and never for an exit of the process.
C27_InitTerminates ==
    /\ (adc.pos = "clock") ~> (adc.pos = "idle" /\ boot.pos = "loop")
    /\ [][/\ (adc.ctrl' # adc.ctrl \/ adc.clkdiv' # adc.clkdiv
                   \/ adc.stepConfig' # adc.stepConfig)
                => (adc.moduleMode /\ adc.pos \notin {"off", "clock", "wait"})
          /\ (adc.pos = "wait" /\ adc'.pos # "wait")
                => (adc.moduleMode /\ adc'.pos = "ctrl" /\ boot' = boot)
          /\ (adc.pos = "clock" /\ adc'.pos # "clock")
                => (adc'.clockRequested /\ adc'.pos = "wait")]_vars

\* ADCInit is in its wait and the clock module does not show the bit yet.
C27_Witness ==
    /\ adc.pos = "wait" /\ adc.clockRequested /\ ~adc.moduleMode
    /\ adc.ctrl = {} /\ adc.stepConfig = {}

\* C28: while auto mode is on no step of the loop changes the duty of the PWM
\* line of the rate-control step or the proposed duty saved for it, and SetPWM
\* is not called for it, whatever its reading and median; every duty set for
\* another step is normalized against the saved duties, the rate-control step's
\* among them.
C28_RateChannelFrozen ==
    [][autoMode' =>
          /\ (pc = "range" =>
                 /\ pwm'[autoLoopStep] = pwm[autoLoopStep]
                 /\ duties'[autoLoopStep] = duties[autoLoopStep])
          /\ autoLoopStep' \notin written'
          /\ \A s \in Steps :
                 (Visited(s) /\ s \in written')
                     => pwm'[s] = normalize(duties, duties'[s])]_vars

\* The dial of step 0 was at the top in manual mode and was then turned off to
\* make the gesture: auto mode is on, the iteration is over, the median of
\* step 0 is 5 and its line still carries the duty of the top position.
C28_Witness ==
    /\ autoMode /\ autoLoopStep = 0
    /\ pc = "read" /\ iter = 2
    /\ medAout[0] = 5
    /\ pwm[0] = dutyCeiling /\ duties[0] = dutyCeiling

\* C29: in every state the direction of every LED is +autoOffsetDelta or
\* -autoOffsetDelta (2), its offset is a multiple of autoOffsetDelta, and the
\* offset is within -autoOffsetMax .. autoOffsetMax (500), also after the limit
\* of the LED was drawn again below the offset it carries and while the
\* threshold test and the limit test reflect it in turn.
C29_OffsetStepAndRange ==
    \A s \in Steps :
        /\ LEDMap[s].autoOffsetDelta \in {autoOffsetDelta, -autoOffsetDelta}
        /\ LEDMap[s].autoOffset % autoOffsetDelta = 0
        /\ LEDMap[s].autoOffset <= autoOffsetMax
        /\ LEDMap[s].autoOffset >= -autoOffsetMax

\* The LED of step 1 carries the offset -500, one step past the limit of 499 it
\* had, has been given the limit 250, and is at the median 400, where every step
\* meets the off threshold.
C29_Witness ==
    /\ medAout[1] = 400
    /\ LEDMap[1].autoOffset = -autoOffsetMax
    /\ LEDMap[1].autoOffsetMax = autoOffsetMax \div offsetRangeRatio
    /\ LEDMap[1].autoLoop = 0

\* C30: in every state, between the advances of the loop, the counter of every
\* LED is at least 0 and at most its loop limit, also after the advance that
\* took a pending loop-size flag and after one that drew a smaller limit.
C30_CounterWithinLimit ==
    \A s \in Steps :
        /\ LEDMap[s].autoLoop >= 0
        /\ LEDMap[s].autoLoop <= LEDMap[s].autoLoopMax

\* The LED of step 1 went from a limit drawn from 1024 to one drawn from 4, and
\* has since drawn the limit 2 under the cooldown, with its counter at 0.
C30_Witness ==
    /\ stepLoopMax = 4
    /\ ~LEDMap[1].updateLoopSize
    /\ LEDMap[1].autoLoopMax = 2
    /\ LEDMap[1].autoLoop = 0
    /\ LEDMap[1].lastLoopAdjust = MaxTime

\* C31: once main is in its for loop the process ends only by a fatal exit or by
\* being killed, and ADCDisable, the deferred call that disables the converter
\* and closes the mapping, never runs.
C31_NeverShutsDown ==
    /\ boot.pos \in {"loop", "fatal", "killed"}
    /\ "ADCDisable" \notin boot.done
    /\ adc.pos # "closed"

====
